---- MODULE Spec2Model ----
(***************************************************************************)
(* Model of app.py: the Flask service whose POST /api/predict handler      *)
(* sends an uploaded image to Google Cloud Vision object localization and  *)
(* answers with the person detections.                                     *)
(*                                                                         *)
(* Text is modelled as a tuple of pieces: a name is the tuple of its       *)
(* characters, an error message the tuple of the literal part and of the   *)
(* text interpolated into it.  Coordinates and scores are integers on a    *)
(* grid of tenths.                                                         *)
(***************************************************************************)
EXTENDS Integers, Sequences, FiniteSets, TLC

VARIABLES
    creds_json,         \* os.environ.get("GCP_SERVICE_ACCOUNT_KEY")
    vision_client,      \* module global: "uninit" during import, then "client" or "None"
    serving,            \* the workers that serve requests
    pc,                 \* per worker: position inside predict()
    upload,             \* per worker: request.files of the request being handled
    content,            \* per worker: local `content`
    response,           \* per worker: response.localized_object_annotations
    idx,                \* per worker: position of the for loop
    person_count,       \* per worker: local `person_count`
    processed_results,  \* per worker: local `processed_results`
    exc,                \* per worker: the exception `e` caught at line 217
    answer,             \* per worker: what object_localization did for this request
    calls,              \* per worker: payloads handed to object_localization in this request
    reads,              \* per worker: number of image_file.read() calls in this request
    returned            \* per worker: (status, body) returned by predict()

vars == <<creds_json, vision_client, serving, pc, upload, content, response, idx,
          person_count, processed_results, exc, answer, calls, reads, returned>>

locals == <<content, response, idx, person_count, processed_results, exc>>

\* ---------------------------------------------------------------- bounds

\* Longest annotation list the backend returns in the single-worker specification.
MaxAnn == 2
\* Number of workers of the concurrent specification.
NumWorkers == 2
\* Longest annotation list the backend returns in the concurrent specification.
ConcMaxAnn == 2

Workers == 1..NumWorkers

\* ---------------------------------------------------------------- text

UpperCase == <<"A","B","C","D","E","F","G","H","I","J","K","L","M",
               "N","O","P","Q","R","S","T","U","V","W","X","Y","Z">>
LowerCase == <<"a","b","c","d","e","f","g","h","i","j","k","l","m",
               "n","o","p","q","r","s","t","u","v","w","x","y","z">>

\* str.lower() on one character.
LowerChar(c) ==
    IF \E i \in 1..Len(UpperCase) : UpperCase[i] = c
    THEN LowerCase[CHOOSE i \in 1..Len(UpperCase) : UpperCase[i] = c]
    ELSE c

\* str.lower()
Lower(s) == [i \in 1..Len(s) |-> LowerChar(s[i])]

\* the literal 'person' of line 194
PersonLiteral == <<"p","e","r","s","o","n">>

\* ---------------------------------------------------------------- inputs

\* Values of the GCP_SERVICE_ACCOUNT_KEY environment variable.
CredValues == {"unset", "malformed", "valid"}

NoFile == [has_image |-> FALSE, filename |-> "", data |-> <<>>]

\* request.files: without the `image` field, or with a file of some name and content.
Uploads ==
    {NoFile} \cup
    {[has_image |-> TRUE, filename |-> f, data |-> d] :
        f \in {"", "a.jpg"}, d \in {<<>>, <<255, 216>>}}

ConcUploads ==
    {NoFile, [has_image |-> TRUE, filename |-> "a.jpg", data |-> <<255, 216>>]}

\* obj.name values the backend returns.
Names == {PersonLiteral, <<"P","e","r","s","o","n">>, <<"d","o","g">>}

Scores == {5, 9}

\* An axis-aligned rectangle, emitted clockwise from the top-left corner.
Rect == <<[x |-> 1, y |-> 2], [x |-> 7, y |-> 2], [x |-> 7, y |-> 8], [x |-> 1, y |-> 8]>>

\* The same polygon emitted from its k-th next corner.
Rotate(p, k) == [i \in 1..Len(p) |-> p[((i - 1 + k) % Len(p)) + 1]]

\* bounding_poly.normalized_vertices values: the rectangle from each starting
\* corner, and a polygon of two vertices only.
Polys == {Rotate(Rect, k) : k \in 0..3} \cup {SubSeq(Rect, 1, 2)}

Annotations == [name : Names, score : Scores, vertices : Polys]

ConcAnnotations == [name : {PersonLiteral, <<"d","o","g">>}, score : {9}, vertices : {Rect}]

\* Sequences over S of length at most n.
SeqsUpTo(S, n) == UNION {[1..k -> S] : k \in 0..n}

\* Texts of the exceptions object_localization raises.
ErrTexts == {"503 Deadline Exceeded", "403 Permission denied"}

\* What object_localization does: raise, or return a list of annotations.
Raised(t) == [raised |-> TRUE, text |-> t, annotations |-> <<>>]
Returned(a) == [raised |-> FALSE, text |-> "", annotations |-> a]
NoAnswer == [raised |-> FALSE, text |-> "not called", annotations |-> <<>>]

Answers == {Raised(t) : t \in ErrTexts} \cup {Returned(a) : a \in SeqsUpTo(Annotations, MaxAnn)}

ConcAnswers ==
    {Raised(t) : t \in ErrTexts} \cup {Returned(a) : a \in SeqsUpTo(ConcAnnotations, ConcMaxAnn)}

\* ---------------------------------------------------------------- responses

NoReturn == [status |-> 0, body |-> [error |-> <<>>]]

ErrorBody(text) == [error |-> text]

Unavailable503 == [status |-> 503, body |-> ErrorBody(<<"Vision API service is unavailable.">>)]
NoImage400 == [status |-> 400, body |-> ErrorBody(<<"No image file provided.">>)]
NoSelected400 == [status |-> 400, body |-> ErrorBody(<<"No selected file.">>)]

\* f"An error occurred during API call: {e}"
ApiError500(e) == [status |-> 500, body |-> ErrorBody(<<"An error occurred during API call: ", e>>)]

Success200(count, results) ==
    [status |-> 200,
     body |-> [status |-> "success",
               person_detected |-> count > 0,
               person_count |-> count,
               detections |-> results]]

\* ---------------------------------------------------------------- startup

\* The state after `app = Flask(__name__)`, before the client is built, with the
\* workers of S serving.
Boot(S) ==
    /\ creds_json \in CredValues
    /\ vision_client = "uninit"
    /\ serving = S
    /\ pc = [w \in Workers |-> "idle"]
    /\ upload = [w \in Workers |-> NoFile]
    /\ content = [w \in Workers |-> <<>>]
    /\ response = [w \in Workers |-> <<>>]
    /\ idx = [w \in Workers |-> 0]
    /\ person_count = [w \in Workers |-> 0]
    /\ processed_results = [w \in Workers |-> <<>>]
    /\ exc = [w \in Workers |-> ""]
    /\ answer = [w \in Workers |-> NoAnswer]
    /\ calls = [w \in Workers |-> <<>>]
    /\ reads = [w \in Workers |-> 0]
    /\ returned = [w \in Workers |-> NoReturn]

Init == Boot({1})

ConcInit == Boot(Workers)

\* Lines 16-33: the client is built from the key; a missing key, a key that does
\* not parse, or a constructor that raises leaves vision_client None.
Startup ==
    /\ vision_client = "uninit"
    /\ \E ctor_raises \in BOOLEAN :
          vision_client' = IF creds_json = "valid" /\ ~ctor_raises THEN "client" ELSE "None"
    /\ UNCHANGED <<creds_json, serving, pc, upload, answer, calls, reads, returned>>
    /\ UNCHANGED locals

\* ---------------------------------------------------------------- predict()

\* A worker takes the next POST /api/predict request; the handler's locals and
\* the per-request records start afresh.
Receive(w, ups) ==
    /\ vision_client # "uninit"
    /\ w \in serving
    /\ pc[w] \in {"idle", "done"}
    /\ \E u \in ups : upload' = [upload EXCEPT ![w] = u]
    /\ pc' = [pc EXCEPT ![w] = "check_client"]
    /\ content' = [content EXCEPT ![w] = <<>>]
    /\ response' = [response EXCEPT ![w] = <<>>]
    /\ idx' = [idx EXCEPT ![w] = 0]
    /\ person_count' = [person_count EXCEPT ![w] = 0]
    /\ processed_results' = [processed_results EXCEPT ![w] = <<>>]
    /\ exc' = [exc EXCEPT ![w] = ""]
    /\ answer' = [answer EXCEPT ![w] = NoAnswer]
    /\ calls' = [calls EXCEPT ![w] = <<>>]
    /\ reads' = [reads EXCEPT ![w] = 0]
    /\ returned' = [returned EXCEPT ![w] = NoReturn]
    /\ UNCHANGED <<creds_json, vision_client, serving>>

\* Return `r` from predict().
Return(w, r) ==
    /\ returned' = [returned EXCEPT ![w] = r]
    /\ pc' = [pc EXCEPT ![w] = "done"]

\* CheckClient without the test of line 166.
CheckClientSkipped(w) ==
    /\ pc[w] = "check_client"
    /\ pc' = [pc EXCEPT ![w] = "check_field"]
    /\ UNCHANGED <<creds_json, vision_client, serving, upload, answer, calls, reads, returned>>
    /\ UNCHANGED locals

\* Lines 166-168.
CheckClient(w) ==
    /\ pc[w] = "check_client"
    /\ IF vision_client = "None"
       THEN Return(w, Unavailable503)
       ELSE pc' = [pc EXCEPT ![w] = "check_field"] /\ UNCHANGED returned
    /\ UNCHANGED <<creds_json, vision_client, serving, upload, answer, calls, reads>>
    /\ UNCHANGED locals

\* Lines 170-172.
CheckField(w) ==
    /\ pc[w] = "check_field"
    /\ IF ~upload[w].has_image
       THEN Return(w, NoImage400)
       ELSE pc' = [pc EXCEPT ![w] = "check_name"] /\ UNCHANGED returned
    /\ UNCHANGED <<creds_json, vision_client, serving, upload, answer, calls, reads>>
    /\ UNCHANGED locals

\* CheckName without the test of line 176.
CheckNameSkipped(w) ==
    /\ pc[w] = "check_name"
    /\ pc' = [pc EXCEPT ![w] = "read"]
    /\ UNCHANGED <<creds_json, vision_client, serving, upload, answer, calls, reads, returned>>
    /\ UNCHANGED locals

\* Lines 174-178.
CheckName(w) ==
    /\ pc[w] = "check_name"
    /\ IF upload[w].filename = ""
       THEN Return(w, NoSelected400)
       ELSE pc' = [pc EXCEPT ![w] = "read"] /\ UNCHANGED returned
    /\ UNCHANGED <<creds_json, vision_client, serving, upload, answer, calls, reads>>
    /\ UNCHANGED locals

\* Lines 182-183: content = image_file.read(); image = Image(content=content).
ReadImage(w) ==
    /\ pc[w] = "read"
    /\ content' = [content EXCEPT ![w] = upload[w].data]
    /\ reads' = [reads EXCEPT ![w] = @ + 1]
    /\ pc' = [pc EXCEPT ![w] = "call"]
    /\ UNCHANGED <<creds_json, vision_client, serving, upload, answer, calls, returned,
                   response, idx, person_count, processed_results, exc>>

\* Lines 187-192: the call of object_localization, which raises or returns the
\* annotations; on return the loop's accumulators are initialised.
CallBackend(w, answers) ==
    /\ pc[w] = "call"
    /\ calls' = [calls EXCEPT ![w] = Append(@, content[w])]
    /\ \E a \in answers :
         /\ answer' = [answer EXCEPT ![w] = a]
         /\ IF a.raised
            THEN /\ exc' = [exc EXCEPT ![w] = a.text]
                 /\ pc' = [pc EXCEPT ![w] = "except"]
                 /\ UNCHANGED <<response, idx, person_count, processed_results>>
            ELSE /\ response' = [response EXCEPT ![w] = a.annotations]
                 /\ processed_results' = [processed_results EXCEPT ![w] = <<>>]
                 /\ person_count' = [person_count EXCEPT ![w] = 0]
                 /\ idx' = [idx EXCEPT ![w] = 1]
                 /\ pc' = [pc EXCEPT ![w] = "loop"]
                 /\ UNCHANGED exc
    /\ UNCHANGED <<creds_json, vision_client, serving, upload, content, reads, returned>>

\* IsPerson without .lower().
IsPersonCaseSensitive(name) == name = PersonLiteral

\* Line 194: obj.name.lower() == 'person'
IsPerson(name) == Lower(name) = PersonLiteral

\* CountAfter with the increment outside the `if` of line 194.
CountEvery(obj, count) == count + 1

\* Line 195: the count after an annotation the filter accepted or dropped.
CountAfter(obj, count) == IF IsPerson(obj.name) THEN count + 1 ELSE count

\* normalized_vertices[i] raises IndexError when the polygon has no such vertex.
HasVertices(obj) == Len(obj.vertices) >= 3

\* Lines 199-204: vertex 0 and vertex 2 of the polygon.
BoundingBox(obj) ==
    <<obj.vertices[1].x, obj.vertices[1].y, obj.vertices[3].x, obj.vertices[3].y>>

\* Lines 196-205.
Detection(obj) ==
    [class_name |-> obj.name, confidence |-> obj.score, bounding_box |-> BoundingBox(obj)]

IndexErrorText == "list index out of range"

\* LoopStep with person_count a module global, shared by the workers.
LoopStepShared(w) ==
    /\ pc[w] = "loop"
    /\ idx[w] <= Len(response[w])
    /\ LET obj == response[w][idx[w]] IN
         /\ person_count' = [v \in Workers |-> CountAfter(obj, person_count[w])]
         /\ IF IsPerson(obj.name) /\ ~HasVertices(obj)
            THEN /\ exc' = [exc EXCEPT ![w] = IndexErrorText]
                 /\ pc' = [pc EXCEPT ![w] = "except"]
                 /\ UNCHANGED <<processed_results, idx>>
            ELSE /\ processed_results' =
                        [processed_results EXCEPT ![w] =
                            IF IsPerson(obj.name) THEN Append(@, Detection(obj)) ELSE @]
                 /\ idx' = [idx EXCEPT ![w] = @ + 1]
                 /\ UNCHANGED <<exc, pc>>
    /\ UNCHANGED <<creds_json, vision_client, serving, upload, content, response, answer,
                   calls, reads, returned>>

\* Lines 193-205: one iteration of the for loop.
LoopStep(w) ==
    /\ pc[w] = "loop"
    /\ idx[w] <= Len(response[w])
    /\ LET obj == response[w][idx[w]] IN
         /\ person_count' = [person_count EXCEPT ![w] = CountAfter(obj, @)]
         /\ IF IsPerson(obj.name) /\ ~HasVertices(obj)
            THEN /\ exc' = [exc EXCEPT ![w] = IndexErrorText]
                 /\ pc' = [pc EXCEPT ![w] = "except"]
                 /\ UNCHANGED <<processed_results, idx>>
            ELSE /\ processed_results' =
                        [processed_results EXCEPT ![w] =
                            IF IsPerson(obj.name) THEN Append(@, Detection(obj)) ELSE @]
                 /\ idx' = [idx EXCEPT ![w] = @ + 1]
                 /\ UNCHANGED <<exc, pc>>
    /\ UNCHANGED <<creds_json, vision_client, serving, upload, content, response, answer,
                   calls, reads, returned>>

\* Lines 207-215.
Respond(w) ==
    /\ pc[w] = "loop"
    /\ idx[w] > Len(response[w])
    /\ Return(w, Success200(person_count[w], processed_results[w]))
    /\ UNCHANGED <<creds_json, vision_client, serving, upload, answer, calls, reads>>
    /\ UNCHANGED locals

\* Except that also drops the client after a failed request.
ExceptDropsClient(w) ==
    /\ pc[w] = "except"
    /\ Return(w, ApiError500(exc[w]))
    /\ vision_client' = "None"
    /\ UNCHANGED <<creds_json, serving, upload, answer, calls, reads>>
    /\ UNCHANGED locals

\* Except that calls the backend once more before giving up.
ExceptRetry(w) ==
    /\ pc[w] = "except"
    /\ IF Len(calls[w]) < 2
       THEN pc' = [pc EXCEPT ![w] = "call"] /\ UNCHANGED returned
       ELSE Return(w, ApiError500(exc[w]))
    /\ UNCHANGED <<creds_json, vision_client, serving, upload, answer, calls, reads>>
    /\ UNCHANGED locals

\* Lines 217-219.
Except(w) ==
    /\ pc[w] = "except"
    /\ Return(w, ApiError500(exc[w]))
    /\ UNCHANGED <<creds_json, vision_client, serving, upload, answer, calls, reads>>
    /\ UNCHANGED locals

\* ---------------------------------------------------------------- specifications

\* One worker, the full range of uploads and backend answers.
Next ==
    \/ Startup
    \/ \E w \in Workers :
         \/ Receive(w, Uploads)
         \/ CheckClient(w)
         \/ CheckField(w)
         \/ CheckName(w)
         \/ ReadImage(w)
         \/ CallBackend(w, Answers)
         \/ LoopStep(w)
         \/ Respond(w)
         \/ Except(w)

Spec == Init /\ [][Next]_vars

\* Several workers whose steps interleave.
ConcNext ==
    \/ Startup
    \/ \E w \in Workers :
         \/ Receive(w, ConcUploads)
         \/ CheckClient(w)
         \/ CheckField(w)
         \/ CheckName(w)
         \/ ReadImage(w)
         \/ CallBackend(w, ConcAnswers)
         \/ LoopStep(w)
         \/ Respond(w)
         \/ Except(w)

ConcSpec == ConcInit /\ [][ConcNext]_vars

\* ---------------------------------------------------------------- properties

Done(w) == pc[w] = "done"

Ok(w) == Done(w) /\ returned[w].status = 200

\* C1: while vision_client is None, a request of any payload is answered with
\* 503 "Vision API service is unavailable.", and for that request the upload
\* is never read and object_localization never invoked.
C1_UnavailableAnswers503 ==
    \A w \in Workers :
        (vision_client = "None" /\ pc[w] # "idle") =>
            /\ pc[w] \in {"check_client", "done"}
            /\ reads[w] = 0
            /\ calls[w] = <<>>
            /\ Done(w) => returned[w] = Unavailable503

C1_Witness ==
    /\ vision_client = "None"
    /\ Done(1)
    /\ upload[1].has_image /\ upload[1].filename # "" /\ upload[1].data # <<>>
    /\ returned[1] = Unavailable503

\* C2 as stated: in every availability state a request without the image
\* field is answered 400 "No image file provided." and one whose file has an
\* empty filename 400 "No selected file.".
C2_InputErrorsAlways400 ==
    \A w \in Workers :
        Done(w) =>
            /\ ~upload[w].has_image => returned[w] = NoImage400
            /\ (upload[w].has_image /\ upload[w].filename = "") => returned[w] = NoSelected400

\* C2 amended: while the backend is Ready a request without the image field is
\* answered 400 "No image file provided." and one whose file has an empty
\* filename 400 "No selected file."; while it is Unavailable both are answered
\* 503, availability being checked before the presence of the image.
C2_InputErrors400WhenReady ==
    \A w \in Workers :
        (Done(w) /\ (~upload[w].has_image \/ upload[w].filename = "")) =>
            /\ vision_client = "client" =>
                 returned[w] = IF upload[w].has_image THEN NoSelected400 ELSE NoImage400
            /\ vision_client = "None" => returned[w] = Unavailable503

C2_Witness ==
    /\ vision_client = "client"
    /\ Done(1)
    /\ upload[1].has_image /\ upload[1].filename = ""
    /\ returned[1] = NoSelected400

\* C3: every 200 response has person_count = length(detections) and
\* person_detected = (person_count > 0); an empty annotation list yields
\* person_detected false, person_count 0 and no detections.
C3_CountMatchesDetections ==
    \A w \in Workers :
        Ok(w) =>
            LET b == returned[w].body IN
            /\ b.person_count = Len(b.detections)
            /\ b.person_detected = (b.person_count > 0)
            /\ answer[w].annotations = <<>> =>
                 (~b.person_detected /\ b.person_count = 0 /\ b.detections = <<>>)

C3_Witness ==
    /\ Ok(1)
    /\ Len(answer[1].annotations) = 2
    /\ returned[1].body.person_count = 1
    /\ returned[1].body.person_detected

\* Equality of two names up to the case of their letters.
EqualsIgnoringCase(a, b) ==
    /\ Len(a) = Len(b)
    /\ \A i \in 1..Len(a) : LowerChar(a[i]) = LowerChar(b[i])

PersonLabelled(obj) == EqualsIgnoringCase(obj.name, <<"p","e","r","s","o","n">>)

\* The person-labelled annotations of a list, in the list's order.
PersonAnnotations(anns) == SelectSeq(anns, PersonLabelled)

\* C4: the detections of a 200 response are exactly the annotations whose name
\* is "person" up to case, in the order the backend returned them, each with
\* its own name and score.
C4_DetectionsArePersonSubsequence ==
    \A w \in Workers :
        Ok(w) =>
            LET kept == PersonAnnotations(answer[w].annotations)
                dets == returned[w].body.detections
            IN /\ Len(dets) = Len(kept)
               /\ \A i \in 1..Len(kept) :
                    /\ dets[i].class_name = kept[i].name
                    /\ dets[i].confidence = kept[i].score
                    /\ dets[i].bounding_box =
                         <<kept[i].vertices[1].x, kept[i].vertices[1].y,
                           kept[i].vertices[3].x, kept[i].vertices[3].y>>

C4_Witness ==
    /\ Ok(1)
    /\ Len(answer[1].annotations) = 2
    /\ answer[1].annotations[1].name = <<"d","o","g">>
    /\ answer[1].annotations[2].name = <<"P","e","r","s","o","n">>
    /\ Len(returned[1].body.detections) = 1
    /\ returned[1].body.detections[1].class_name = <<"P","e","r","s","o","n">>

\* C5: every bounding_box [x_min, y_min, x_max, y_max] of a 200 response has
\* x_min <= x_max and y_min <= y_max.
C5_BoxOrdered ==
    \A w \in Workers :
        Ok(w) =>
            \A i \in 1..Len(returned[w].body.detections) :
                LET box == returned[w].body.detections[i].bounding_box IN
                box[1] <= box[3] /\ box[2] <= box[4]

\* C6: a 500 response carries one generic message: two requests that fail on
\* different errors get the same body, and the body does not contain the text
\* of the exception that was raised.
C6_GenericErrorBody ==
    /\ \A w \in Workers :
         (Done(w) /\ returned[w].status = 500) =>
             \A i \in 1..Len(returned[w].body.error) : returned[w].body.error[i] # exc[w]
    /\ \A v, w \in Workers :
         (Done(v) /\ Done(w) /\ returned[v].status = 500 /\ returned[w].status = 500) =>
             returned[v].body = returned[w].body

\* C7: availability is decided at startup, Ready only if the key was set and
\* parsed, and no step of any request changes it afterwards.
C7_AvailabilityFixedAtStartup ==
    /\ [](vision_client = "client" => creds_json = "valid")
    /\ [](creds_json # "valid" => vision_client \in {"uninit", "None"})
    /\ [][vision_client # "uninit" => vision_client' = vision_client]_vars

C7_Witness ==
    /\ vision_client = "client"
    /\ Done(1)
    /\ returned[1].status = 500

\* C8: object_localization is never called with an empty payload.
C8_NoEmptyPayload ==
    \A w \in Workers :
        \A i \in 1..Len(calls[w]) : calls[w][i] # <<>>

\* C9: within one request object_localization is invoked at most once, only
\* with the client available and both input checks passed, never for a
\* request answered 400 or 503, and not again after it has raised.
C9_AtMostOneCall ==
    \A w \in Workers :
        /\ Len(calls[w]) <= 1
        /\ calls[w] # <<>> =>
             (vision_client = "client" /\ upload[w].has_image /\ upload[w].filename # "")
        /\ (Done(w) /\ returned[w].status \in {400, 503}) => calls[w] = <<>>
        /\ (Done(w) /\ answer[w].raised) => (Len(calls[w]) = 1 /\ returned[w].status = 500)

C9_Witness ==
    /\ Done(1)
    /\ answer[1].raised
    /\ returned[1].status = 500
    /\ Len(calls[1]) = 1

\* The response of one request handled alone, from its upload, the backend's
\* answer for it and the availability decided at startup.
Alone(client, u, a) ==
    IF client = "None" THEN Unavailable503
    ELSE IF ~u.has_image THEN NoImage400
    ELSE IF u.filename = "" THEN NoSelected400
    ELSE IF a.raised THEN ApiError500(a.text)
    ELSE IF \E i \in 1..Len(a.annotations) :
                PersonLabelled(a.annotations[i]) /\ Len(a.annotations[i].vertices) < 3
         THEN ApiError500("list index out of range")
    ELSE LET kept == PersonAnnotations(a.annotations) IN
         Success200(Len(kept),
                    [i \in 1..Len(kept) |->
                        [class_name |-> kept[i].name,
                         confidence |-> kept[i].score,
                         bounding_box |-> <<kept[i].vertices[1].x, kept[i].vertices[1].y,
                                            kept[i].vertices[3].x, kept[i].vertices[3].y>>]])

\* C10: with workers interleaving their steps, each response is the one the
\* request would get alone: it depends only on the request's upload, the
\* backend's answer for that upload and the availability decided at startup.
C10_ResponsesIndependent ==
    \A w \in Workers :
        Done(w) => returned[w] = Alone(vision_client, upload[w], answer[w])

C10_Witness ==
    /\ Ok(1) /\ Ok(2)
    /\ returned[1].body.person_count = 1
    /\ returned[2].body.person_count = 0
    /\ Len(answer[2].annotations) = 1

====
